---------------------------- MODULE Spec2Model ----------------------------
(***************************************************************************)
(* A model of the SIP-over-WebSocket signalling core of ucware-cli         *)
(* (src/src/sipsocket/mod.rs): transaction keys, the transaction registry, *)
(* the client transaction handles, the multiplexer task Connection::run,   *)
(* Dialog and the two-round registration procedure.                        *)
(***************************************************************************)
EXTENDS Integers, Sequences, FiniteSets, TLC

(***************************************************************************)
(* Option<T>                                                               *)
(***************************************************************************)
None == [some |-> FALSE, v |-> ""]
Some(x) == [some |-> TRUE, v |-> x]

(***************************************************************************)
(* SIP messages.  A message is a record with a header list; a header is a  *)
(* record whose `name` says which rsip::Header variant it is.  `ok` says   *)
(* whether the untyped header value parses (`.typed()` succeeds).          *)
(***************************************************************************)
Via(host, branch, ok) == [name |-> "Via", host |-> host, branch |-> branch, ok |-> ok]
CallIdH(v) == [name |-> "Call-ID", value |-> v]
CSeqH(seq, method, ok) == [name |-> "CSeq", seq |-> seq, method |-> method, ok |-> ok]
PlainH(name, v) == [name |-> name, value |-> v]

Request(method, headers) == [method |-> method, headers |-> headers]
Response(status, headers) == [status |-> status, headers |-> headers]

\* rsip HeadersExt accessors (via_header, call_id_header, cseq_header, ...):
\* the first header of the given variant, if any.
HasHeader(headers, name) == \E i \in 1..Len(headers) : headers[i].name = name
FirstIndex(headers, name) ==
  CHOOSE i \in 1..Len(headers) :
    /\ headers[i].name = name
    /\ \A j \in 1..(i - 1) : headers[j].name # name
FirstHeader(headers, name) == headers[FirstIndex(headers, name)]

(***************************************************************************)
(* TransactionKey                                                          *)
(***************************************************************************)
TransactionKey(method, call_id, branch) ==
  [method |-> method, call_id |-> call_id, branch |-> branch]

\* call_id_header().ok().map(|header| header.to_string())
KeyCallId(headers) ==
  IF HasHeader(headers, "Call-ID")
    THEN Some(FirstHeader(headers, "Call-ID").value)
    ELSE None

\* via_header().and_then(|h| h.typed()).ok().and_then(|h| h.branch()...)
KeyBranch(headers) ==
  IF HasHeader(headers, "Via") /\ FirstHeader(headers, "Via").ok
    THEN FirstHeader(headers, "Via").branch
    ELSE None

from_request(request) ==
  TransactionKey(request.method, KeyCallId(request.headers), KeyBranch(request.headers))

\* cseq_header().and_then(|h| h.typed()).ok().map(|h| h.method.to_string())
\*   .unwrap_or_default()
KeyCSeqMethod(headers) ==
  IF HasHeader(headers, "CSeq") /\ FirstHeader(headers, "CSeq").ok
    THEN FirstHeader(headers, "CSeq").method
    ELSE ""

from_response_LastVia(response) ==
  TransactionKey(KeyCSeqMethod(response.headers),
                 KeyCallId(response.headers),
                 IF HasHeader(response.headers, "Via")
                   THEN response.headers[
                          CHOOSE i \in 1..Len(response.headers) :
                            /\ response.headers[i].name = "Via"
                            /\ \A j \in (i + 1)..Len(response.headers) :
                                 response.headers[j].name # "Via"].branch
                   ELSE None)

from_response(response) ==
  TransactionKey(KeyCSeqMethod(response.headers),
                 KeyCallId(response.headers),
                 KeyBranch(response.headers))


(***************************************************************************)
(* Bounds of the model and capacities of the program's channels            *)
(***************************************************************************)
NTx == 2            \* client transactions created in one run
MaxFrames == 3      \* frames the peer puts on the transport in one run
ChanCap == 1        \* per-transaction response channel, mpsc::channel(1)
OutCap == 1         \* outbound request channel (sender)
InCap == 1          \* inbound transaction queue (receiver)
ResCap == 1         \* outgoing-response channel (sender_res)

T == 1..NTx

NoReq == Request("", <<>>)
NoResp == Response(0, <<>>)
NoResult == [kind |-> "none", resp |-> NoResp]
NoHold == [tx |-> 0, msg |-> NoResp]

VARIABLES
  registry,   \* Connection.transactions: set of [key, tx], tx owns the Sender's channel
  txst,       \* per ClientTransaction: unused, sending, held, receiving, dropping, gone
  txreq,      \* ClientTransaction.request
  chan,       \* per ClientTransaction: the buffer of its response channel
  result,     \* what became of the transaction / of the caller's receive()
  delivered,  \* history: every response ever pushed into the transaction's channel
  outq,       \* buffer of the outbound request channel (sender_tx -> sender_rx)
  wire,       \* history: frames written to the transport (proto_tx), in order
  mux,        \* Connection::run: select, sendResp, sendReq, write, done, failed, panicked
  hold,       \* what run holds while suspended in a channel send or a transport write
  inq,        \* buffer of the inbound transaction queue (receiver_tx -> receiver_rx)
  resq,       \* buffer of the outgoing-response channel (sender_res)
  cons,       \* the consumer loop of main
  nread       \* frames read from the transport so far

muxVars == <<registry, txst, txreq, chan, result, delivered, outq, wire, mux,
             hold, inq, resq, cons, nread>>

(***************************************************************************)
(* Status classes (rsip StatusCode::kind)                                  *)
(***************************************************************************)
IsProvisional(status) == status \div 100 = 1
IsSuccessful(status) == status \div 100 = 2

(***************************************************************************)
(* Registry (DashMap<TransactionKey, mpsc::Sender<Response>>)              *)
(***************************************************************************)
RegistryGet(reg, k) == {e \in reg : e.key = k}
RegistryInsert(reg, k, t) == (reg \ RegistryGet(reg, k)) \cup {[key |-> k, tx |-> t]}
RegistryRemove(reg, k) == reg \ RegistryGet(reg, k)
HasKey(reg, k) == RegistryGet(reg, k) # {}
EntryTx(reg, k) == (CHOOSE e \in reg : e.key = k).tx

VARIABLE
  shard       \* the DashMap's shards: the partition of the keys by the shard
              \* their hash selects

mapVars == <<shard>>

\* Two keys share a lock of the map.  DashMap locks per shard: equal keys
\* always lie in the same shard, different keys do when their hashes select
\* the same one.
SameShard(k1, k2) == k1 = k2 \/ \E sh \in shard : k1 \in sh /\ k2 \in sh

MuxTerminated == mux \in {"done", "failed", "panicked"}

\* run is suspended in tx.send(response) holding its `Ref` into the map.
MuxHoldsRef(k) ==
  /\ mux = "sendResp"
  /\ SameShard(from_response(hold.msg), k)

\* Some Sender of transaction t's channel exists: the one stored in the
\* registry (run's `Ref` points at that same one).
SenderAlive(t) == \E e \in registry : e.tx = t

(***************************************************************************)
(* ClientTransaction                                                       *)
(***************************************************************************)
TxKey(t) == from_request(txreq[t])

DropTransaction_KeepEntry(t, res, rest) ==
  /\ result' = [result EXCEPT ![t] = res]
  /\ txst' = [txst EXCEPT ![t] = "gone"]
  /\ chan' = [chan EXCEPT ![t] = <<>>]
  /\ UNCHANGED registry

\* impl Drop for ClientTransaction: transactions.remove(key of the own
\* request); the Receiver is dropped after it.  remove waits for the map's
\* lock while run holds a Ref into the same shard.  `rest` is what the
\* channel buffers when the drop begins.
DropTransaction(t, res, rest) ==
  /\ result' = [result EXCEPT ![t] = res]
  /\ IF MuxHoldsRef(TxKey(t))
       THEN /\ txst' = [txst EXCEPT ![t] = "dropping"]
            /\ chan' = [chan EXCEPT ![t] = rest]
            /\ UNCHANGED registry
       ELSE /\ txst' = [txst EXCEPT ![t] = "gone"]
            /\ registry' = RegistryRemove(registry, TxKey(t))
            /\ chan' = [chan EXCEPT ![t] = <<>>]

\* The remove of a drop that had to wait for the lock.
FinishDrop(t) ==
  /\ txst[t] = "dropping"
  /\ ~MuxHoldsRef(TxKey(t))
  /\ txst' = [txst EXCEPT ![t] = "gone"]
  /\ registry' = RegistryRemove(registry, TxKey(t))
  /\ chan' = [chan EXCEPT ![t] = <<>>]
  /\ UNCHANGED <<txreq, result, delivered, outq, wire, mux, hold, inq, resq,
                 cons, nread>>

\* The caller lets go of a transaction: before receive(), while send() or
\* receive() is suspended (the future is cancelled), or while it is held.
DropTx(t) ==
  /\ txst[t] \in {"sending", "held", "receiving"}
  /\ DropTransaction(t, [kind |-> "dropped", resp |-> NoResp], chan[t])
  /\ UNCHANGED <<txreq, delivered, outq, wire, mux, hold, inq, resq, cons, nread>>

\* ClientTransaction::receive is called on a held transaction.
StartReceive(t) ==
  /\ txst[t] = "held"
  /\ txst' = [txst EXCEPT ![t] = "receiving"]
  /\ UNCHANGED <<registry, txreq, chan, result, delivered, outq, wire, mux,
                 hold, inq, resq, cons, nread>>

ReceiveStep_NoSkip(t) ==
  /\ txst[t] = "receiving"
  /\ chan[t] # <<>>
  /\ DropTransaction(t, [kind |-> "ok", resp |-> Head(chan[t])], Tail(chan[t]))
  /\ UNCHANGED <<txreq, delivered, outq, wire, mux, hold, inq, resq, cons, nread>>

\* One turn of the loop of ClientTransaction::receive: recv() yields the
\* next response of the channel, or None once the channel is empty and no
\* Sender of it is left; receive(mut self) drops the transaction as it returns.
ReceiveStep(t) ==
  /\ txst[t] = "receiving"
  /\ IF chan[t] # <<>>
       THEN IF IsProvisional(Head(chan[t]).status)
              THEN /\ chan' = [chan EXCEPT ![t] = Tail(chan[t])]
                   /\ UNCHANGED <<registry, txst, result>>
              ELSE DropTransaction(t, [kind |-> "ok", resp |-> Head(chan[t])], Tail(chan[t]))
       ELSE /\ ~SenderAlive(t)
            /\ DropTransaction(t, [kind |-> "closed", resp |-> NoResp], <<>>)
  /\ UNCHANGED <<txreq, delivered, outq, wire, mux, hold, inq, resq, cons, nread>>

(***************************************************************************)
(* Connection::send                                                        *)
(***************************************************************************)
\* Lines 317-329: the channel and the ClientTransaction are made and the
\* Sender is inserted under the request's key (insert replaces, and so
\* drops, a Sender already stored under an equal key).
ConnSendInsert(t, req) ==
  /\ txst[t] = "unused"
  /\ \A u \in T : u < t => txst[u] # "unused"
  /\ ~MuxHoldsRef(from_request(req))
  /\ txst' = [txst EXCEPT ![t] = "sending"]
  /\ txreq' = [txreq EXCEPT ![t] = req]
  /\ registry' = RegistryInsert(registry, from_request(req), t)
  /\ UNCHANGED <<chan, result, delivered, outq, wire, mux, hold, inq, resq,
                 cons, nread>>

\* Line 331: self.sender.send(request).await.expect("Request pipe closed"):
\* waits for room in the outbound channel; with the receiving end gone (run
\* has ended) the expect panics and the unwinding drops the transaction.
ConnSendEnqueue(t) ==
  /\ txst[t] = "sending"
  /\ IF MuxTerminated
       THEN /\ DropTransaction(t, [kind |-> "panic", resp |-> NoResp], chan[t])
            /\ UNCHANGED outq
       ELSE /\ Len(outq) < OutCap
            /\ outq' = Append(outq, [tx |-> t, req |-> txreq[t]])
            /\ txst' = [txst EXCEPT ![t] = "held"]
            /\ UNCHANGED <<registry, chan, result>>
  /\ UNCHANGED <<txreq, delivered, wire, mux, hold, inq, resq, cons, nread>>

(***************************************************************************)
(* ServerTransaction::respond / ResponseBuilder::send                      *)
(***************************************************************************)
UserAgent == PlainH("User-Agent", "ucware-cli")

CorrelationHeader(h) == h.name \in {"Via", "From", "To", "CSeq", "Call-ID"}

respond_KeepAll(request, status_code) ==
  [status_code |-> status_code, headers |-> Append(request.headers, UserAgent)]

\* Lines 87-101: the ResponseBuilder that respond returns: the status code
\* and the request's Via, From, To, CSeq and Call-ID headers in the
\* request's order, then the User-Agent header.
respond(request, status_code) ==
  [status_code |-> status_code,
   headers |-> Append(SelectSeq(request.headers, CorrelationHeader), UserAgent)]

\* Lines 120-125: the Response that ResponseBuilder::send builds.
ResponseBuilderSend(builder, body) ==
  [status |-> builder.status_code, version |-> "SIP/2.0",
   headers |-> builder.headers, body |-> body]

(***************************************************************************)
(* Frames                                                                  *)
(***************************************************************************)
TextRequest(req) == [kind |-> "request", msg |-> req, tx |-> 0]
TextResponse(resp) == [kind |-> "response", msg |-> resp, tx |-> 0]
Malformed == [kind |-> "malformed", msg |-> NoResp, tx |-> 0]
Ping == [kind |-> "ping", msg |-> NoResp, tx |-> 0]
Pong == [kind |-> "pong", msg |-> NoResp, tx |-> 0]
Close == [kind |-> "close", msg |-> NoResp, tx |-> 0]
Binary == [kind |-> "binary", msg |-> NoResp, tx |-> 0]
EndOfStream == [kind |-> "end", msg |-> NoResp, tx |-> 0]
ReadError == [kind |-> "error", msg |-> NoResp, tx |-> 0]

(***************************************************************************)
(* Connection::run, the multiplexer                                        *)
(***************************************************************************)
\* The consumer has left its loop and dropped the receiving end of the
\* inbound queue: it returned "Client closed connection" (closed), panicked
\* in ResponseBuilder::send (panicked) or in a header access (aborted).
ConsGone == cons.pc \in {"closed", "panicked", "aborted"}

\* run returns or unwinds: its locals are dropped, which closes the
\* receiving ends sender_rx and sender_res_rx (and what they buffer) and the
\* sending end receiver_tx.  The registry lives on in the Connection's Arc.
MuxEnds(how) ==
  /\ mux' = how
  /\ hold' = NoHold
  /\ outq' = <<>>
  /\ resq' = <<>>

\* proto_tx.send(frame).await begins: run has left the select with the
\* frame in hand and waits until the transport takes it.
MuxWrite(frame) ==
  /\ mux' = "write"
  /\ hold' = [tx |-> 0, msg |-> frame]

\* proto_tx.send(frame).await? returns (lines 289, 304, 310): the frame is
\* written and run selects again, or the write fails and run returns the
\* error.
MuxWriteDone ==
  /\ mux = "write"
  /\ \E ok \in BOOLEAN :
       IF ok
         THEN /\ wire' = Append(wire, hold.msg)
              /\ mux' = "select"
              /\ hold' = NoHold
              /\ UNCHANGED <<outq, resq>>
         ELSE /\ MuxEnds("failed")
              /\ UNCHANGED wire
  /\ UNCHANGED <<registry, txst, txreq, chan, result, delivered, inq, cons, nread>>

MuxRouteRequest_Unbounded(req) ==
  /\ IF ConsGone
       THEN MuxEnds("panicked") /\ UNCHANGED inq
       ELSE /\ inq' = Append(inq, req)
            /\ UNCHANGED <<mux, hold, outq, resq>>
  /\ UNCHANGED <<registry, txst, txreq, chan, result, delivered, wire, cons>>

\* Lines 264-272: an inbound request becomes a ServerTransaction and is
\* pushed into the inbound queue; run waits while the queue is full.
MuxRouteRequest(req) ==
  /\ IF ConsGone
       THEN MuxEnds("panicked") /\ UNCHANGED inq
       ELSE IF Len(inq) < InCap
              THEN /\ inq' = Append(inq, req)
                   /\ UNCHANGED <<mux, hold, outq, resq>>
              ELSE /\ mux' = "sendReq"
                   /\ hold' = [tx |-> 0, msg |-> req]
                   /\ UNCHANGED <<inq, outq, resq>>
  /\ UNCHANGED <<registry, txst, txreq, chan, result, delivered, wire, cons>>

MuxRouteResponse_FatalOnMiss(resp) ==
  /\ IF ~HasKey(registry, from_response(resp))
       THEN mux' = "failed" /\ UNCHANGED <<chan, delivered, hold>>
       ELSE LET t == EntryTx(registry, from_response(resp)) IN
            IF Len(chan[t]) < ChanCap
              THEN /\ chan' = [chan EXCEPT ![t] = Append(chan[t], resp)]
                   /\ delivered' = [delivered EXCEPT ![t] = Append(delivered[t], resp)]
                   /\ UNCHANGED <<mux, hold>>
              ELSE /\ mux' = "sendResp"
                   /\ hold' = [tx |-> t, msg |-> resp]
                   /\ UNCHANGED <<chan, delivered>>
  /\ UNCHANGED <<registry, txst, txreq, result, outq, wire, inq, resq, cons>>

MuxRouteResponse_AnyEntry(resp) ==
  /\ IF ~HasKey(registry, from_response(resp))
       THEN UNCHANGED <<chan, delivered, mux, hold>>
       ELSE LET t == (CHOOSE e \in registry : TRUE).tx IN
            IF Len(chan[t]) < ChanCap
              THEN /\ chan' = [chan EXCEPT ![t] = Append(chan[t], resp)]
                   /\ delivered' = [delivered EXCEPT ![t] = Append(delivered[t], resp)]
                   /\ UNCHANGED <<mux, hold>>
              ELSE /\ mux' = "sendResp"
                   /\ hold' = [tx |-> t, msg |-> resp]
                   /\ UNCHANGED <<chan, delivered>>
  /\ UNCHANGED <<registry, txst, txreq, result, outq, wire, inq, resq, cons>>

\* Lines 274-284: the response's key is looked up; without an entry the
\* response is logged and dropped; with one it is sent into the
\* transaction's channel, run waiting (with its Ref held) while that is full.
MuxRouteResponse(resp) ==
  /\ IF ~HasKey(registry, from_response(resp))
       THEN UNCHANGED <<chan, delivered, mux, hold>>
       ELSE LET t == EntryTx(registry, from_response(resp)) IN
            IF Len(chan[t]) < ChanCap
              THEN /\ chan' = [chan EXCEPT ![t] = Append(chan[t], resp)]
                   /\ delivered' = [delivered EXCEPT ![t] = Append(delivered[t], resp)]
                   /\ UNCHANGED <<mux, hold>>
              ELSE /\ mux' = "sendResp"
                   /\ hold' = [tx |-> t, msg |-> resp]
                   /\ UNCHANGED <<chan, delivered>>
  /\ UNCHANGED <<registry, txst, txreq, result, outq, wire, inq, resq, cons>>

MuxRead_SkipMalformed(f) ==
  /\ mux = "select"
  /\ nread < MaxFrames
  /\ nread' = nread + 1
  /\ CASE f.kind = "request" -> MuxRouteRequest(f.msg)
       [] f.kind = "response" -> MuxRouteResponse(f.msg)
       [] f.kind \in {"end", "close"} ->
            /\ MuxEnds("done")
            /\ UNCHANGED <<registry, txst, txreq, chan, result, delivered, wire,
                           inq, cons>>
       [] f.kind = "error" ->
            /\ MuxEnds("failed")
            /\ UNCHANGED <<registry, txst, txreq, chan, result, delivered, wire,
                           inq, cons>>
       [] f.kind = "ping" ->
            /\ MuxWrite(Pong)
            /\ UNCHANGED <<registry, txst, txreq, chan, result, delivered, outq,
                           wire, inq, resq, cons>>
       [] OTHER ->
            UNCHANGED <<registry, txst, txreq, chan, result, delivered, outq,
                        wire, mux, hold, inq, resq, cons>>

\* Lines 251-299: one frame (or the end, or an error) from proto_rx.
MuxRead(f) ==
  /\ mux = "select"
  /\ nread < MaxFrames
  /\ nread' = nread + 1
  /\ CASE f.kind = "request" -> MuxRouteRequest(f.msg)
       [] f.kind = "response" -> MuxRouteResponse(f.msg)
       [] f.kind \in {"end", "close"} ->
            /\ MuxEnds("done")
            /\ UNCHANGED <<registry, txst, txreq, chan, result, delivered, wire,
                           inq, cons>>
       [] f.kind \in {"error", "malformed"} ->
            /\ MuxEnds("failed")
            /\ UNCHANGED <<registry, txst, txreq, chan, result, delivered, wire,
                           inq, cons>>
       [] f.kind = "ping" ->
            /\ MuxWrite(Pong)
            /\ UNCHANGED <<registry, txst, txreq, chan, result, delivered, outq,
                           wire, inq, resq, cons>>
       [] OTHER ->
            UNCHANGED <<registry, txst, txreq, chan, result, delivered, outq,
                        wire, mux, hold, inq, resq, cons>>

\* run resumes a tx.send(response) that waited for room.
MuxResumeResponse ==
  /\ mux = "sendResp"
  /\ Len(chan[hold.tx]) < ChanCap
  /\ chan' = [chan EXCEPT ![hold.tx] = Append(chan[hold.tx], hold.msg)]
  /\ delivered' = [delivered EXCEPT ![hold.tx] = Append(delivered[hold.tx], hold.msg)]
  /\ mux' = "select"
  /\ hold' = NoHold
  /\ UNCHANGED <<registry, txst, txreq, result, outq, wire, inq, resq, cons, nread>>

\* run resumes a receiver_tx.send(tx) that waited for room.
MuxResumeRequest ==
  /\ mux = "sendReq"
  /\ IF ConsGone
       THEN MuxEnds("panicked") /\ UNCHANGED inq
       ELSE /\ Len(inq) < InCap
            /\ inq' = Append(inq, hold.msg)
            /\ mux' = "select"
            /\ hold' = NoHold
            /\ UNCHANGED <<outq, resq>>
  /\ UNCHANGED <<registry, txst, txreq, chan, result, delivered, wire, cons, nread>>

\* Lines 301-304: run takes a request from the outbound channel, which
\* frees its place there, and begins to write it.
MuxWriteRequest ==
  /\ mux = "select"
  /\ outq # <<>>
  /\ MuxWrite([kind |-> "request", msg |-> Head(outq).req, tx |-> Head(outq).tx])
  /\ outq' = Tail(outq)
  /\ UNCHANGED <<registry, txst, txreq, chan, result, delivered, wire, inq, resq,
                 cons, nread>>

MuxWriteResponse_NoPop ==
  /\ mux = "select"
  /\ resq # <<>>
  /\ Len(wire) < MaxFrames
  /\ MuxWrite(TextResponse(Head(resq)))
  /\ UNCHANGED <<registry, txst, txreq, chan, result, delivered, outq, wire, inq,
                 resq, cons, nread>>

\* Lines 307-310: run takes a response from the outgoing-response channel,
\* which frees its place there, and begins to write it.
MuxWriteResponse ==
  /\ mux = "select"
  /\ resq # <<>>
  /\ MuxWrite(TextResponse(Head(resq)))
  /\ resq' = Tail(resq)
  /\ UNCHANGED <<registry, txst, txreq, chan, result, delivered, outq, wire, inq,
                 cons, nread>>

(***************************************************************************)
(* The consumer loop of main (src/src/main.rs, src/src/bin/call_notify.rs) *)
(***************************************************************************)
Handler_RingingFirst(method) ==
  CASE method = "OPTIONS" -> <<202>>
    [] method = "INVITE" -> <<180, 100>>
    [] method = "CANCEL" -> <<202>>
    [] OTHER -> <<>>

\* The status codes the handler answers a request of the given method with.
Handler(method) ==
  CASE method = "OPTIONS" -> <<202>>
    [] method = "INVITE" -> <<100, 180>>
    [] method = "CANCEL" -> <<202>>
    [] OTHER -> <<>>

\* The header accesses of the handler that panic: the INVITE arm expects a
\* From header and a CSeq header whose number parses, the CANCEL arm a CSeq
\* header whose number parses.
HandlerAborts(request) ==
  CASE request.method = "INVITE" ->
         \/ ~HasHeader(request.headers, "From")
         \/ ~HasHeader(request.headers, "CSeq")
         \/ ~FirstHeader(request.headers, "CSeq").ok
    [] request.method = "CANCEL" ->
         \/ ~HasHeader(request.headers, "CSeq")
         \/ ~FirstHeader(request.headers, "CSeq").ok
    [] OTHER -> FALSE

\* requests.recv().await: the next ServerTransaction, or None ("Client
\* closed connection") once the queue is empty and run has ended.
ConsRecv ==
  /\ cons.pc = "recv"
  /\ IF inq # <<>>
       THEN /\ inq' = Tail(inq)
            /\ cons' = IF HandlerAborts(Head(inq))
                         THEN [pc |-> "aborted", req |-> Head(inq), todo |-> <<>>]
                         ELSE [pc |-> IF Handler(Head(inq).method) = <<>>
                                        THEN "recv" ELSE "respond",
                               req |-> Head(inq),
                               todo |-> Handler(Head(inq).method)]
       ELSE /\ MuxTerminated
            /\ cons' = [cons EXCEPT !.pc = "closed"]
            /\ UNCHANGED inq
  /\ UNCHANGED <<registry, txst, txreq, chan, result, delivered, outq, wire,
                 mux, hold, resq, nread>>

\* tx.respond(status).send([]).await: waits for room in the
\* outgoing-response channel; with its receiving end gone the expect panics.
ConsRespond ==
  /\ cons.pc = "respond"
  /\ IF MuxTerminated
       THEN /\ cons' = [cons EXCEPT !.pc = "panicked"]
            /\ UNCHANGED resq
       ELSE /\ Len(resq) < ResCap
            /\ resq' = Append(resq, ResponseBuilderSend(respond(cons.req, Head(cons.todo)), <<>>))
            /\ cons' = [cons EXCEPT !.todo = Tail(cons.todo),
                                    !.pc = IF Tail(cons.todo) = <<>> THEN "recv" ELSE "respond"]
  /\ UNCHANGED <<registry, txst, txreq, chan, result, delivered, outq, wire,
                 mux, hold, inq, nread>>

(***************************************************************************)
(* Connection::dialog, Dialog::request                                     *)
(***************************************************************************)
VARIABLES
  conn,     \* the Connection's immutable fields: send_by, user, domain
  dlg,      \* a Dialog: call_id, seq (the AtomicU32), init (seq as created)
  issued,   \* history: the values fetch_add returned, in the order of the calls
  built,    \* history: the requests built on the Dialog, in the order finished
  dpc       \* per caller of Dialog::request: idle, or the call in progress

dlgVars == <<conn, dlg, issued, built, dpc>>

MaxU16 == 65535        \* rand::random::<u16>() as u32

NCallers == 2          \* concurrent callers of Dialog::request
MaxCalls == 4          \* calls of Dialog::request on one Dialog
Callers == 1..NCallers

CallIds == {"c1", "c2"}
InitSeqs == {0, 7, MaxU16}
SendBys == {"a.invalid", "b.invalid"}
Methods == {"REGISTER", "OPTIONS", "INVITE"}

NoDialog == [call_id |-> "", seq |-> 0, init |-> 0]
IdleCall == [st |-> "idle", method |-> "", seq |-> 0, k |-> 0]

UriH(name, user, host) == [name |-> name, user |-> user, host |-> host]

fetch_add_NoAdd(seq) == seq

\* self.seq.fetch_add(1, Ordering::Release): the new value of the counter
\* (the call returns the old one).  The AtomicU32 wraps at 2^32; a Dialog
\* starts below 2^16, so a wrap takes more than 2^32 - 2^16 calls, which is
\* beyond every run of the model (and beyond the integers of TLC).
fetch_add(seq) == seq + 1

\* Lines 434-473: the headers every request of a Dialog starts with.  The
\* Via carries the send-by host and no parameter (so no branch).
DialogRequestHeaders(c, call_id, seq, method) ==
  << Via(c.send_by, None, TRUE),
     UriH("To", c.user, c.domain),
     UriH("From", c.user, c.domain),
     CSeqH(seq, method, TRUE),
     CallIdH(call_id),
     UserAgent >>

\* RequestBuilder::send, lines 490-505: the request handed to Connection::send.
BuildRequest(method, headers) == Request(method, headers)

\* A caller's self.seq.fetch_add inside Dialog::request.
DlgFetch(c, method) ==
  /\ dpc[c].st = "idle"
  /\ Len(issued) < MaxCalls
  /\ dpc' = [dpc EXCEPT ![c] = [st |-> "got", method |-> method, seq |-> dlg.seq,
                                 k |-> Len(issued) + 1]]
  /\ issued' = Append(issued, dlg.seq)
  /\ dlg' = [dlg EXCEPT !.seq = fetch_add(dlg.seq)]
  /\ UNCHANGED <<conn, built>>

\* The rest of that caller's Dialog::request and the building of the request.
DlgBuild(c) ==
  /\ dpc[c].st = "got"
  /\ built' = Append(built,
                     [k |-> dpc[c].k,
                      req |-> BuildRequest(dpc[c].method,
                                           DialogRequestHeaders(conn, dlg.call_id,
                                                                dpc[c].seq, dpc[c].method))])
  /\ dpc' = [dpc EXCEPT ![c] = IdleCall]
  /\ UNCHANGED <<conn, dlg, issued>>

(***************************************************************************)
(* Connection::register                                                    *)
(***************************************************************************)
VARIABLES
  reg       \* the caller inside register: pc, outcome, the random contact user

regVars == <<reg>>

Unauthorized == 401
ContactExpires == 6000

Username == "u"
Password == "p"
ContactUsers == {"k1"}

WwwAuthenticate(ok, realm, nonce, opaque, algorithm, qop) ==
  [name |-> "WWW-Authenticate", ok |-> ok, realm |-> realm, nonce |-> nonce,
   opaque |-> opaque, algorithm |-> algorithm, qop |-> qop]

\* Lines 372-382: DigestGenerator { .. qop: None, uri: default }.compute(),
\* kept as the term it is computed from.
DigestResponse(username, password, www) ==
  [algorithm |-> IF www.algorithm.some THEN www.algorithm.v ELSE "MD5",
   username |-> username, realm |-> www.realm, password |-> password,
   nonce |-> www.nonce, method |-> "REGISTER", uri |-> "", qop |-> None]

Authorization_KeepQop(username, password, www) ==
  [name |-> "Authorization", scheme |-> "Digest", username |-> username,
   realm |-> www.realm, nonce |-> www.nonce, uri |-> "",
   response |-> DigestResponse(username, password, www),
   algorithm |-> www.algorithm, opaque |-> www.opaque, qop |-> www.qop]

\* Lines 384-394: the typed Authorization header of round 2.
Authorization(username, password, www) ==
  [name |-> "Authorization", scheme |-> "Digest", username |-> username,
   realm |-> www.realm, nonce |-> www.nonce, uri |-> "",
   response |-> DigestResponse(username, password, www),
   algorithm |-> www.algorithm, opaque |-> www.opaque, qop |-> None]

\* Lines 398-411: the Contact header of round 2.
Contact(user, host) ==
  [name |-> "Contact", user |-> user, host |-> host, transport |-> "ws",
   expires |-> ContactExpires]

RegOutcome(kind, status) == [kind |-> kind, status |-> status]
RegIdle == [pc |-> "init", outcome |-> RegOutcome("none", 0), contact |-> ""]

\* Lines 348-355: the contact user, the Dialog, the first REGISTER and the
\* start of its Connection::send.
RegStart ==
  /\ reg.pc = "init"
  /\ \E cid \in CallIds, n \in InitSeqs, k \in ContactUsers :
       LET req == BuildRequest("REGISTER",
                               DialogRequestHeaders(conn, cid, n, "REGISTER")) IN
       /\ dlg' = [call_id |-> cid, seq |-> fetch_add(n), init |-> n]
       /\ issued' = <<n>>
       /\ built' = <<[k |-> 1, req |-> req]>>
       /\ reg' = [reg EXCEPT !.pc = "send1", !.contact = k]
       /\ ConnSendInsert(1, req)
  /\ UNCHANGED <<conn, dpc>>

\* The rest of a Connection::send of register (t = 1, 2 for the two rounds).
RegEnqueue(t) ==
  /\ reg.pc = IF t = 1 THEN "send1" ELSE "send2"
  /\ ConnSendEnqueue(t)
  /\ reg' = [reg EXCEPT !.pc = IF MuxTerminated THEN "panicked"
                               ELSE IF t = 1 THEN "recv1" ELSE "recv2"]
  /\ UNCHANGED dlgVars

\* .receive().await of a round.
RegReceive(t) ==
  /\ reg.pc = IF t = 1 THEN "recv1" ELSE "recv2"
  /\ IF txst[t] = "held" THEN StartReceive(t) ELSE ReceiveStep(t)
  /\ UNCHANGED <<dlgVars, reg>>

SecondRegister_NewDialog(c, d, contact, www) ==
  BuildRequest("REGISTER",
               DialogRequestHeaders(c, CHOOSE x \in CallIds : x # d.call_id, 1, "REGISTER")
                 \o << Contact(contact, c.send_by),
                       Authorization(Username, Password, www) >>)

\* The second REGISTER: Dialog::request on the same Dialog, with the Contact
\* and Authorization headers appended.
SecondRegister(c, d, contact, www) ==
  BuildRequest("REGISTER",
               DialogRequestHeaders(c, d.call_id, d.seq, "REGISTER")
                 \o << Contact(contact, c.send_by),
                       Authorization(Username, Password, www) >>)

RegAfter1_Retry(r1) ==
  IF r1.kind = "closed"
    THEN /\ reg' = [reg EXCEPT !.pc = "done", !.outcome = RegOutcome("closed", 0)]
         /\ UNCHANGED <<muxVars, dlgVars>>
    ELSE IF IsSuccessful(r1.resp.status)
      THEN /\ reg' = [reg EXCEPT !.pc = "done", !.outcome = RegOutcome("ok", 0)]
           /\ UNCHANGED <<muxVars, dlgVars>>
      ELSE LET www == [ok |-> TRUE, realm |-> "", nonce |-> "", opaque |-> None,
                       algorithm |-> None, qop |-> None]
               req == SecondRegister(conn, dlg, reg.contact, www) IN
           /\ issued' = Append(issued, dlg.seq)
           /\ dlg' = [dlg EXCEPT !.seq = fetch_add(dlg.seq)]
           /\ built' = Append(built, [k |-> 2, req |-> req])
           /\ reg' = [reg EXCEPT !.pc = "send2"]
           /\ ConnSendInsert(2, req)
           /\ UNCHANGED <<conn, dpc>>

\* Lines 359-413, with r1 what receive() of round 1 came to: the decision
\* on the first final response and, after a challenge, the second REGISTER.
RegAfter1(r1) ==
  IF r1.kind = "closed"
    THEN /\ reg' = [reg EXCEPT !.pc = "done", !.outcome = RegOutcome("closed", 0)]
         /\ UNCHANGED <<muxVars, dlgVars>>
    ELSE IF IsSuccessful(r1.resp.status)
      THEN /\ reg' = [reg EXCEPT !.pc = "done", !.outcome = RegOutcome("ok", 0)]
           /\ UNCHANGED <<muxVars, dlgVars>>
    ELSE IF r1.resp.status # Unauthorized
      THEN /\ reg' = [reg EXCEPT !.pc = "done",
                                 !.outcome = RegOutcome("status", r1.resp.status)]
           /\ UNCHANGED <<muxVars, dlgVars>>
    ELSE IF ~HasHeader(r1.resp.headers, "WWW-Authenticate")
      THEN /\ reg' = [reg EXCEPT !.pc = "done", !.outcome = RegOutcome("no_www", 0)]
           /\ UNCHANGED <<muxVars, dlgVars>>
    ELSE IF ~FirstHeader(r1.resp.headers, "WWW-Authenticate").ok
      THEN /\ reg' = [reg EXCEPT !.pc = "done", !.outcome = RegOutcome("parse", 0)]
           /\ UNCHANGED <<muxVars, dlgVars>>
    ELSE LET www == FirstHeader(r1.resp.headers, "WWW-Authenticate")
             req == SecondRegister(conn, dlg, reg.contact, www) IN
         /\ issued' = Append(issued, dlg.seq)
         /\ dlg' = [dlg EXCEPT !.seq = fetch_add(dlg.seq)]
         /\ built' = Append(built, [k |-> 2, req |-> req])
         /\ reg' = [reg EXCEPT !.pc = "send2"]
         /\ ConnSendInsert(2, req)
         /\ UNCHANGED <<conn, dpc>>

\* register goes on once receive() of round 1 has returned.
RegRound1Done ==
  /\ reg.pc = "recv1"
  /\ txst[1] = "gone"
  /\ RegAfter1(result[1])

RegAfter2_IgnoreStatus(r2) ==
  reg' = [reg EXCEPT !.pc = "done", !.outcome = RegOutcome("ok", 0)]

\* Lines 418-422: the decision on the final response of round 2.
RegAfter2(r2) ==
  reg' = [reg EXCEPT !.pc = "done",
                     !.outcome = IF r2.kind = "closed" THEN RegOutcome("closed", 0)
                                 ELSE IF IsSuccessful(r2.resp.status)
                                        THEN RegOutcome("ok", 0)
                                        ELSE RegOutcome("status", r2.resp.status)]

RegRound2Done ==
  /\ reg.pc = "recv2"
  /\ txst[2] = "gone"
  /\ RegAfter2(result[2])
  /\ UNCHANGED <<muxVars, dlgVars>>

(***************************************************************************)
(* Transaction keys of arbitrary messages                                  *)
(***************************************************************************)
VARIABLES
  kin,      \* a request and a response
  kout      \* the keys derived from them

keyVars == <<kin, kout>>

ViaVariants ==
  { <<>>,
    <<Via("h.invalid", None, TRUE)>>,
    <<Via("h.invalid", Some("b1"), TRUE)>>,
    <<Via("h.invalid", Some("b2"), TRUE)>>,
    <<Via("h.invalid", Some("b1"), FALSE)>>,
    <<Via("h.invalid", Some("b1"), TRUE), Via("x.invalid", Some("b2"), TRUE)>> }
CallIdVariants == { <<>>, <<CallIdH("c1")>>, <<CallIdH("c2")>> }
CSeqVariants ==
  { <<>>, <<CSeqH(1, "REGISTER", TRUE)>>, <<CSeqH(1, "INVITE", TRUE)>>,
    <<CSeqH(1, "REGISTER", FALSE)>> }

KeyRequests ==
  { Request(m, v \o q \o c) :
      m \in {"REGISTER", "INVITE"}, v \in ViaVariants, q \in CSeqVariants,
      c \in CallIdVariants }
KeyResponses ==
  { Response(200, v \o q \o c) :
      v \in ViaVariants, q \in CSeqVariants, c \in CallIdVariants }

NoKey == TransactionKey("", None, None)
NoKeys == [done |-> FALSE, rk |-> NoKey, sk |-> NoKey]

KeyDerive ==
  /\ ~kout.done
  /\ kout' = [done |-> TRUE, rk |-> from_request(kin.req), sk |-> from_response(kin.resp)]
  /\ UNCHANGED kin

(***************************************************************************)
(* respond applied to arbitrary requests                                   *)
(***************************************************************************)
VARIABLES
  rin,      \* a ServerTransaction's request, a status code and a body
  rout      \* the response built from them and the request afterwards

respVars == <<rin, rout>>

\* Headers a request of the peer may carry, in three arrangements.
RespondHeaders ==
  << Via("peer.example", Some("z9"), TRUE), PlainH("User-Agent", "peer"),
     PlainH("From", "peer"), PlainH("Contact", "peer"), PlainH("To", "me"),
     Via("proxy.example", Some("z8"), TRUE), CSeqH(5, "INVITE", TRUE),
     PlainH("Content-Length", "0"), CallIdH("p1") >>

Reverse(seq) == [i \in 1..Len(seq) |-> seq[Len(seq) + 1 - i]]

RespondArrangements ==
  { RespondHeaders, Reverse(RespondHeaders),
    SubSeq(RespondHeaders, 5, Len(RespondHeaders)) \o SubSeq(RespondHeaders, 1, 4) }

RespondRequests ==
  { Request("INVITE", SelectSeq(a, LAMBDA h : h \in hs)) :
      a \in RespondArrangements,
      hs \in SUBSET {RespondHeaders[i] : i \in 1..Len(RespondHeaders)} }

RespondStatuses == {100, 180, 202}
RespondBodies == {<<>>, <<"v=0">>}

NoRespond == [done |-> FALSE, resp |-> NoResp, req |-> NoReq]

\* tx.respond(status).send(body) on a ServerTransaction holding rin.req;
\* respond reads the stored request and leaves it as it is.
RespondApply ==
  /\ ~rout.done
  /\ rout' = [done |-> TRUE,
              resp |-> ResponseBuilderSend(respond(rin.req, rin.status), rin.body),
              req |-> rin.req]
  /\ UNCHANGED rin

(***************************************************************************)
(* What an observer of the connection has seen                             *)
(***************************************************************************)
VARIABLES
  rlog,     \* history: the frames run has read from the transport, in order
  dlog,     \* history: the deliveries into transaction channels, each with the
            \*          number of the frame delivered
  taken,    \* history: the requests the consumer took from the inbound queue
  sreq,     \* history: the requests that entered the outbound channel
  sresp     \* history: the responses that entered the outgoing-response channel

histVars == <<rlog, dlog, taken, sreq, sresp>>

\* What a step adds to the histories other than rlog.
Observe ==
  /\ dlog' = IF delivered' # delivered
               THEN Append(dlog, [tx |-> CHOOSE t \in T : delivered'[t] # delivered[t],
                                  frame |-> nread'])
               ELSE dlog
  /\ taken' = IF Len(inq') < Len(inq) THEN Append(taken, Head(inq)) ELSE taken
  /\ sreq' = IF Len(outq') > Len(outq) THEN Append(sreq, outq'[Len(outq')]) ELSE sreq
  /\ sresp' = IF Len(resq') > Len(resq) THEN Append(sresp, resq'[Len(resq')]) ELSE sresp

\* A step in which run reads frame f.
ObserveRead(f) == rlog' = Append(rlog, f) /\ Observe

\* Any other step.
ObserveStep == UNCHANGED rlog /\ Observe

(***************************************************************************)
(* The peer and the callers of the model                                   *)
(***************************************************************************)
\* A request as a caller hands it to Connection::send.
ClientRequest(method, call_id) ==
  Request(method, <<Via("h.invalid", None, TRUE), CSeqH(1, method, TRUE), CallIdH(call_id)>>)

\* A response of the peer to a request with that method and Call-ID.
PeerResponse(status, method, call_id) ==
  Response(status, <<Via("h.invalid", None, TRUE), CSeqH(1, method, TRUE), CallIdH(call_id)>>)

\* A request of the peer.
PeerRequest(method) ==
  Request(method, <<Via("peer.example", Some("z9"), TRUE), PlainH("From", "peer"),
                    PlainH("To", "me"), CSeqH(5, method, TRUE), CallIdH("p1"),
                    PlainH("User-Agent", "peer")>>)

SendRequests == {ClientRequest("REGISTER", c) : c \in CallIds}

PeerFrames ==
  {TextResponse(PeerResponse(s, "REGISTER", c)) : s \in {180, 200}, c \in CallIds}
    \cup {TextResponse(Response(200, <<Via("h.invalid", None, TRUE), CallIdH("c1")>>))}
    \cup {TextRequest(PeerRequest(m)) : m \in {"OPTIONS"}}
    \cup {Ping, Close, EndOfStream, ReadError, Malformed, Binary}

\* The peer's answers to the REGISTER requests of a registration.
Challenges ==
  { WwwAuthenticate(TRUE, "r1", "n1", None, None, None),
    WwwAuthenticate(TRUE, "r2", "n2", Some("o2"), Some("SHA-256"), Some("auth")),
    WwwAuthenticate(FALSE, "", "", None, None, None) }

RegisterResponse(status, call_id, extra) ==
  Response(status, <<Via("h.invalid", None, TRUE), CSeqH(1, "REGISTER", TRUE),
                     CallIdH(call_id)>> \o extra)

RegFrames(call_id) ==
  {TextResponse(RegisterResponse(s, call_id, <<>>)) : s \in {100, 200, 403, Unauthorized}}
    \cup {TextResponse(RegisterResponse(Unauthorized, call_id, <<w>>)) : w \in Challenges}
    \cup {Close}

(***************************************************************************)
(* Initial states                                                          *)
(***************************************************************************)
InitMux ==
  /\ registry = {}
  /\ txst = [t \in T |-> "unused"]
  /\ txreq = [t \in T |-> NoReq]
  /\ chan = [t \in T |-> <<>>]
  /\ result = [t \in T |-> NoResult]
  /\ delivered = [t \in T |-> <<>>]
  /\ outq = <<>>
  /\ wire = <<>>
  /\ mux = "select"
  /\ hold = NoHold
  /\ inq = <<>>
  /\ resq = <<>>
  /\ cons = [pc |-> "recv", req |-> NoReq, todo |-> <<>>]
  /\ nread = 0

NoConn == [send_by |-> "h.invalid", user |-> Username, domain |-> "pbx.example"]

\* The keys of the requests of the model, and the ways a set can be split
\* into shards.
ModelKeys == {from_request(req) : req \in SendRequests}

Partitions(S) ==
  {P \in SUBSET (SUBSET S \ {{}}) :
     /\ UNION P = S
     /\ \A a, b \in P : a # b => a \cap b = {}}

\* The hashes of the keys select the shards in any way.
InitShards == shard \in Partitions(ModelKeys)

\* Each key in a shard of its own, for the specifications in which run
\* takes no Ref into the map.
InitOwnShards == shard = {{k} : k \in ModelKeys}

InitNoDialog ==
  /\ conn = NoConn
  /\ dlg = NoDialog
  /\ issued = <<>>
  /\ built = <<>>
  /\ dpc = [c \in Callers |-> IdleCall]

InitNoKeys ==
  /\ kin = [req |-> NoReq, resp |-> NoResp]
  /\ kout = NoKeys

InitNoHist ==
  /\ rlog = <<>>
  /\ dlog = <<>>
  /\ taken = <<>>
  /\ sreq = <<>>
  /\ sresp = <<>>

InitNoRespond ==
  /\ rin = [req |-> NoReq, status |-> 0, body |-> <<>>]
  /\ rout = NoRespond

vars == <<muxVars, mapVars, dlgVars, regVars, keyVars, histVars, respVars>>

(***************************************************************************)
(* Spec: callers of Connection::send, the multiplexer, the peer and the    *)
(* consumer loop                                                           *)
(***************************************************************************)
Init ==
  /\ InitMux /\ InitNoDialog /\ InitNoKeys /\ InitNoHist /\ InitNoRespond /\ reg = RegIdle
  /\ InitShards

Idle == UNCHANGED <<mapVars, dlgVars, regVars, keyVars, histVars, respVars>>

Next ==
  \/ \E t \in T, req \in SendRequests : ConnSendInsert(t, req) /\ Idle
  \/ \E t \in T : ConnSendEnqueue(t) /\ Idle
  \/ \E t \in T : StartReceive(t) /\ Idle
  \/ \E t \in T : ReceiveStep(t) /\ Idle
  \/ \E t \in T : DropTx(t) /\ Idle
  \/ \E t \in T : FinishDrop(t) /\ Idle
  \/ \E f \in PeerFrames : MuxRead(f) /\ Idle
  \/ MuxResumeResponse /\ Idle
  \/ MuxResumeRequest /\ Idle
  \/ MuxWriteRequest /\ Idle
  \/ MuxWriteDone /\ Idle
  \/ MuxWriteResponse /\ Idle
  \/ ConsRecv /\ Idle
  \/ ConsRespond /\ Idle

Spec == Init /\ [][Next]_vars

(***************************************************************************)
(* SpecKey: the two key derivations applied to a request and a response    *)
(***************************************************************************)
InitKey ==
  /\ InitMux /\ InitNoDialog /\ InitNoHist /\ InitNoRespond /\ reg = RegIdle
  /\ InitOwnShards
  /\ kin \in [req : KeyRequests, resp : KeyResponses]
  /\ kout = NoKeys

NextKey ==
  KeyDerive /\ UNCHANGED <<muxVars, mapVars, dlgVars, regVars, histVars, respVars>>

SpecKey == InitKey /\ [][NextKey]_vars

(***************************************************************************)
(* SpecDialog: concurrent callers of Dialog::request on one Dialog         *)
(***************************************************************************)
InitDialog ==
  /\ InitMux /\ InitNoKeys /\ InitNoHist /\ InitNoRespond /\ reg = RegIdle
  /\ InitOwnShards
  /\ conn \in [send_by : SendBys, user : {Username}, domain : {"pbx.example"}]
  /\ \E cid \in CallIds, n \in InitSeqs : dlg = [call_id |-> cid, seq |-> n, init |-> n]
  /\ issued = <<>>
  /\ built = <<>>
  /\ dpc = [c \in Callers |-> IdleCall]

NextDialog ==
  \/ \E c \in Callers, m \in Methods :
       DlgFetch(c, m) /\ UNCHANGED <<muxVars, mapVars, regVars, keyVars, histVars, respVars>>
  \/ \E c \in Callers : DlgBuild(c) /\ UNCHANGED <<muxVars, mapVars, regVars, keyVars, histVars, respVars>>

SpecDialog == InitDialog /\ [][NextDialog]_vars

(***************************************************************************)
(* SpecReg: Connection::register against the multiplexer and a registrar   *)
(***************************************************************************)
InitReg ==
  /\ InitMux /\ InitNoKeys /\ InitNoHist /\ InitNoRespond /\ reg = RegIdle
  /\ InitShards
  /\ conn \in [send_by : SendBys, user : {Username}, domain : {"pbx.example"}]
  /\ dlg = NoDialog
  /\ issued = <<>>
  /\ built = <<>>
  /\ dpc = [c \in Callers |-> IdleCall]

NextReg ==
  \/ RegStart /\ UNCHANGED <<mapVars, keyVars, histVars, respVars>>
  \/ \E t \in T : RegEnqueue(t) /\ UNCHANGED <<mapVars, keyVars, histVars, respVars>>
  \/ \E t \in T : RegReceive(t) /\ UNCHANGED <<mapVars, keyVars, histVars, respVars>>
  \/ \E t \in T : FinishDrop(t) /\ Idle
  \/ RegRound1Done /\ UNCHANGED <<mapVars, keyVars, histVars, respVars>>
  \/ RegRound2Done /\ UNCHANGED <<mapVars, keyVars, histVars, respVars>>
  \/ \E f \in RegFrames(dlg.call_id) : MuxRead(f) /\ Idle
  \/ MuxResumeResponse /\ Idle
  \/ MuxWriteRequest /\ Idle
  \/ MuxWriteDone /\ Idle

SpecReg == InitReg /\ [][NextReg]_vars

(***************************************************************************)
(* SpecRespond: respond(status).send(body) on an arbitrary request         *)
(***************************************************************************)
InitRespond ==
  /\ InitMux /\ InitNoDialog /\ InitNoKeys /\ InitNoHist /\ reg = RegIdle
  /\ InitOwnShards
  /\ rin \in [req : RespondRequests, status : RespondStatuses, body : RespondBodies]
  /\ rout = NoRespond

NextRespond ==
  RespondApply /\ UNCHANGED <<muxVars, mapVars, dlgVars, regVars, keyVars, histVars>>

SpecRespond == InitRespond /\ [][NextRespond]_vars

(***************************************************************************)
(* SpecServe: the peer's requests, the consumer loop and callers of        *)
(* Connection::send, with what an observer sees                            *)
(***************************************************************************)
\* An INVITE without a From header.
InviteNoFrom ==
  Request("INVITE", <<Via("peer.example", Some("z9"), TRUE), PlainH("To", "me"),
                      CSeqH(5, "INVITE", TRUE), CallIdH("p1")>>)

ServeFrames ==
  {TextRequest(PeerRequest(m)) : m \in {"INVITE", "CANCEL", "OPTIONS", "NOTIFY"}}
    \cup {TextRequest(InviteNoFrom), Ping, Close, ReadError}

Still == UNCHANGED <<mapVars, dlgVars, regVars, keyVars, respVars>>

NextServe ==
  \/ \E t \in T, req \in SendRequests : ConnSendInsert(t, req) /\ ObserveStep /\ Still
  \/ \E t \in T : ConnSendEnqueue(t) /\ ObserveStep /\ Still
  \/ \E f \in ServeFrames : MuxRead(f) /\ ObserveRead(f) /\ Still
  \/ MuxResumeRequest /\ ObserveStep /\ Still
  \/ MuxWriteRequest /\ ObserveStep /\ Still
  \/ MuxWriteDone /\ ObserveStep /\ Still
  \/ MuxWriteResponse /\ ObserveStep /\ Still
  \/ ConsRecv /\ ObserveStep /\ Still
  \/ ConsRespond /\ ObserveStep /\ Still

\* No response is read here, so run takes no Ref into the map.
InitServe ==
  /\ InitMux /\ InitNoDialog /\ InitNoKeys /\ InitNoHist /\ InitNoRespond /\ reg = RegIdle
  /\ InitOwnShards

SpecServe == InitServe /\ [][NextServe]_vars

(***************************************************************************)
(* SpecClient: callers of Connection::send and receive, the peer's         *)
(* responses and other frames, with what an observer sees                  *)
(***************************************************************************)
ClientFrames ==
  {TextResponse(PeerResponse(s, "REGISTER", c)) : s \in {180, 200}, c \in CallIds}
    \cup {TextResponse(PeerResponse(200, "INVITE", "c1"))}
    \cup {Malformed}

NextClient ==
  \/ \E t \in T, req \in SendRequests : ConnSendInsert(t, req) /\ ObserveStep /\ Still
  \/ \E t \in T : ConnSendEnqueue(t) /\ ObserveStep /\ Still
  \/ \E t \in T : StartReceive(t) /\ ObserveStep /\ Still
  \/ \E t \in T : ReceiveStep(t) /\ ObserveStep /\ Still
  \/ \E t \in T : DropTx(t) /\ ObserveStep /\ Still
  \/ \E t \in T : FinishDrop(t) /\ ObserveStep /\ Still
  \/ \E f \in ClientFrames : MuxRead(f) /\ ObserveRead(f) /\ Still
  \/ MuxResumeResponse /\ ObserveStep /\ Still
  \/ MuxWriteRequest /\ ObserveStep /\ Still
  \/ MuxWriteDone /\ ObserveStep /\ Still

SpecClient == Init /\ [][NextClient]_vars

(***************************************************************************)
(* Properties                                                              *)
(***************************************************************************)
Alive(t) == txst[t] \in {"sending", "held", "receiving"}
InOutboundChannel(t) == \E i \in 1..Len(outq) : outq[i].tx = t
OnTransport(t) == \E i \in 1..Len(wire) : wire[i].kind = "request" /\ wire[i].tx = t
Is1xx(resp) == resp.status \in 100..199
Is2xx(resp) == resp.status \in 200..299

\* C1 (register-before-send): there is no state in which a request is in the
\* outbound channel or on the transport while its ClientTransaction is alive
\* and its key is absent from the registry.
C1_NoUnregisteredRequest ==
  \A t \in T :
    (Alive(t) /\ (InOutboundChannel(t) \/ OnTransport(t)))
      => HasKey(registry, TxKey(t))

\* C2: once the multiplexer has terminated, the channel of every
\* ClientTransaction that waits in receive() is closed, so that a receive()
\* that has nothing buffered fails instead of waiting.
C2_TerminationClosesChannels ==
  MuxTerminated =>
    \A t \in T : (txst[t] = "receiving" /\ chan[t] = <<>>) => ~SenderAlive(t)

\* C3: receive() returns exactly the first non-1xx response delivered on the
\* channel, every response before it being 1xx; it fails with "Transaction
\* closed without response" only if no non-1xx response was delivered.
C3_ReceiveFirstFinal ==
  \A t \in T :
    /\ result[t].kind = "ok" =>
         \E i \in 1..Len(delivered[t]) :
           /\ ~Is1xx(delivered[t][i])
           /\ \A j \in 1..(i - 1) : Is1xx(delivered[t][j])
           /\ result[t].resp = delivered[t][i]
    /\ result[t].kind = "closed" =>
         \A i \in 1..Len(delivered[t]) : Is1xx(delivered[t][i])

\* A receive() that returned a final response after a provisional one, and
\* another that failed after a provisional one.
C3_Witness ==
  \E t, u \in T :
    /\ result[t].kind = "ok"
    /\ Len(delivered[t]) >= 2
    /\ Is1xx(delivered[t][1])
    /\ result[u].kind = "closed"
    /\ delivered[u] # <<>>

\* C4: once a ClientTransaction has been dropped, no response with its key
\* is delivered to any ClientTransaction.
C4_DroppedKeyStaysUnmatched ==
  [][\A t, u \in T :
       (txst[t] = "gone" /\ delivered'[u] # delivered[u])
         => from_response(delivered'[u][Len(delivered'[u])]) # TxKey(t)]_vars

(***************************************************************************)
(* What a message says, read off its headers                               *)
(***************************************************************************)
\* The method named in the CSeq header, when there is a CSeq that parses.
CSeqMethodOf(m) ==
  IF \E i \in 1..Len(m.headers) : m.headers[i].name = "CSeq"
    THEN LET h == m.headers[CHOOSE i \in 1..Len(m.headers) :
                               /\ m.headers[i].name = "CSeq"
                               /\ \A j \in 1..(i - 1) : m.headers[j].name # "CSeq"]
         IN IF h.ok THEN Some(h.method) ELSE None
    ELSE None

CallIdOf(m) ==
  IF \E i \in 1..Len(m.headers) : m.headers[i].name = "Call-ID"
    THEN Some(m.headers[CHOOSE i \in 1..Len(m.headers) :
                          /\ m.headers[i].name = "Call-ID"
                          /\ \A j \in 1..(i - 1) : m.headers[j].name # "Call-ID"].value)
    ELSE None

\* The branch of the topmost Via, when there is a Via and it parses.
TopViaBranchOf(m) ==
  LET vias == SelectSeq(m.headers, LAMBDA h : h.name = "Via") IN
  IF vias # <<>> /\ vias[1].ok THEN vias[1].branch ELSE None

\* C5: a request and a response that agree on method (the response's CSeq
\* method), Call-ID and topmost Via branch have equal keys; equal keys agree
\* in all three fields; a response without a parseable CSeq gets the method
\* "" and matches no request.
C5_KeyMatching ==
  kout.done =>
    /\ ( /\ CSeqMethodOf(kin.resp) = Some(kin.req.method)
         /\ CallIdOf(kin.resp) = CallIdOf(kin.req)
         /\ TopViaBranchOf(kin.resp) = TopViaBranchOf(kin.req) )
         => kout.rk = kout.sk
    /\ kout.rk = kout.sk =>
         /\ kout.rk.method = kout.sk.method
         /\ kout.rk.call_id = kout.sk.call_id
         /\ kout.rk.branch = kout.sk.branch
         /\ CSeqMethodOf(kin.resp) = Some(kin.req.method)
         /\ CallIdOf(kin.resp) = CallIdOf(kin.req)
         /\ TopViaBranchOf(kin.resp) = TopViaBranchOf(kin.req)
    /\ CSeqMethodOf(kin.resp) = None =>
         /\ kout.sk.method = ""
         /\ kout.sk # kout.rk

\* Keys derived from a matching pair whose response carries two Via headers
\* with different branches.
C5_Witness ==
  /\ kout.done
  /\ kout.rk = kout.sk
  /\ kout.rk.branch = Some("b1")
  /\ kout.rk.call_id.some
  /\ Len(SelectSeq(kin.resp.headers, LAMBDA h : h.name = "Via")) = 2

CSeqOf(req) ==
  req.headers[CHOOSE i \in 1..Len(req.headers) : req.headers[i].name = "CSeq"]

\* C6: the k-th call of Dialog::request (k = 0, 1, ...) carries CSeq N + k,
\* N the Dialog's initial value, whatever the method, and no two requests
\* built on the Dialog carry the same CSeq number, also with overlapping
\* callers.
C6_CSeqIncreasing ==
  /\ \A k \in 1..Len(issued) : issued[k] = dlg.init + (k - 1)
  /\ \A i \in 1..Len(built) :
       /\ CSeqOf(built[i].req).seq = dlg.init + (built[i].k - 1)
       /\ CSeqOf(built[i].req).method = built[i].req.method
  /\ \A i, j \in 1..Len(built) :
       i # j => CSeqOf(built[i].req).seq # CSeqOf(built[j].req).seq

\* Three requests of two methods, two of them finished in the opposite order
\* of their calls, on a Dialog that started at the largest initial value.
C6_Witness ==
  /\ Len(built) >= 3
  /\ dlg.init = MaxU16
  /\ \E i, j \in 1..Len(built) : i < j /\ built[i].k > built[j].k
  /\ \E i, j \in 1..Len(built) : built[i].req.method # built[j].req.method

(***************************************************************************)
(* Properties of Connection::register                                      *)
(***************************************************************************)
Round1 == result[1]
Round2 == result[2]
HasChallenge(resp) ==
  \E i \in 1..Len(resp.headers) : resp.headers[i].name = "WWW-Authenticate"
ChallengeOf(resp) ==
  resp.headers[CHOOSE i \in 1..Len(resp.headers) :
                 /\ resp.headers[i].name = "WWW-Authenticate"
                 /\ \A j \in 1..(i - 1) : resp.headers[j].name # "WWW-Authenticate"]
RequestFrames == SelectSeq(wire, LAMBDA f : f.kind = "request")
HeadersNamed(req, name) == SelectSeq(req.headers, LAMBDA h : h.name = name)

\* C7: register succeeds iff round 1 ends 2xx, or round 1 ends 401 with a
\* WWW-Authenticate header and round 2 ends 2xx; it fails with the status of
\* round 1 when that is neither 2xx nor 401, with "no WWW-Authenticate
\* header" when round 1 is 401 without the header, and with the status of
\* round 2 when that is not 2xx.
C7_RegisterOutcome ==
  reg.pc = "done" =>
    /\ reg.outcome.kind = "ok" <=>
         \/ Round1.kind = "ok" /\ Is2xx(Round1.resp)
         \/ /\ Round1.kind = "ok" /\ Round1.resp.status = 401
            /\ HasChallenge(Round1.resp)
            /\ Round2.kind = "ok" /\ Is2xx(Round2.resp)
    /\ (Round1.kind = "ok" /\ ~Is2xx(Round1.resp) /\ Round1.resp.status # 401)
         => reg.outcome = RegOutcome("status", Round1.resp.status)
    /\ (Round1.kind = "ok" /\ Round1.resp.status = 401 /\ ~HasChallenge(Round1.resp))
         => reg.outcome = RegOutcome("no_www", 0)
    /\ (Round2.kind = "ok" /\ ~Is2xx(Round2.resp))
         => reg.outcome = RegOutcome("status", Round2.resp.status)

\* A registration that succeeded in its second round.
C7_Witness ==
  /\ reg.pc = "done"
  /\ reg.outcome.kind = "ok"
  /\ Round1.kind = "ok" /\ Round1.resp.status = 401
  /\ Round2.kind = "ok" /\ Is2xx(Round2.resp)

\* C8: one run of register builds and sends at most two REGISTER requests;
\* the second only once round 1 has ended with a 401 that carries a
\* WWW-Authenticate header; a 401 in round 2 ends the procedure with a failure.
C8_AtMostTwoRounds ==
  /\ Len(built) <= 2
  /\ Len(RequestFrames) + Len(outq) <= Len(built)
  /\ txst[2] # "unused" => Len(built) = 2
  /\ Len(built) = 2 =>
       /\ Round1.kind = "ok"
       /\ Round1.resp.status = 401
       /\ HasChallenge(Round1.resp)
  /\ (Round2.kind = "ok" /\ Round2.resp.status = 401 /\ reg.pc = "done")
       => /\ reg.outcome = RegOutcome("status", 401)
          /\ Len(built) = 2

\* A registration that ended with a 401 in its second round, both REGISTER
\* requests written to the transport.
C8_Witness ==
  /\ reg.pc = "done"
  /\ Round2.kind = "ok" /\ Round2.resp.status = 401
  /\ Len(RequestFrames) = 2

\* C9: the second REGISTER carries the Call-ID of the first and a CSeq
\* number one greater, both with method REGISTER; what is written to the
\* transport are these requests.
C9_SameDialog ==
  /\ \A i \in 1..Len(built) :
       /\ built[i].req.method = "REGISTER"
       /\ CSeqOf(built[i].req).method = "REGISTER"
  /\ Len(built) = 2 =>
       /\ CallIdOf(built[2].req) = CallIdOf(built[1].req)
       /\ CallIdOf(built[1].req).some
       /\ CSeqOf(built[2].req).seq = CSeqOf(built[1].req).seq + 1
  /\ \A i \in 1..Len(RequestFrames) : RequestFrames[i].msg = built[i].req

\* Both REGISTER requests of a registration are on the transport.
C9_Witness ==
  /\ Len(built) = 2
  /\ Len(RequestFrames) = 2
  /\ dlg.init = MaxU16

\* C10: the first REGISTER has no Authorization header; the second has one
\* Authorization header, of scheme Digest, with the challenge's realm, nonce
\* and opaque and without qop, and one Contact header with the connection's
\* send-by host and expires 6000.
C10_RegisterHeaders ==
  /\ Len(built) >= 1 => HeadersNamed(built[1].req, "Authorization") = <<>>
  /\ Len(built) = 2 =>
       LET www == ChallengeOf(Round1.resp)
           auth == HeadersNamed(built[2].req, "Authorization")
           contact == HeadersNamed(built[2].req, "Contact") IN
       /\ Len(auth) = 1
       /\ auth[1].scheme = "Digest"
       /\ auth[1].realm = www.realm
       /\ auth[1].nonce = www.nonce
       /\ auth[1].opaque = www.opaque
       /\ auth[1].qop = None
       /\ Len(contact) = 1
       /\ contact[1].host = conn.send_by
       /\ contact[1].expires = 6000

\* A second REGISTER built after a challenge that advertised a qop and
\* carried an opaque.
C10_Witness ==
  /\ Len(built) = 2
  /\ ChallengeOf(Round1.resp).qop.some
  /\ ChallengeOf(Round1.resp).opaque.some
  /\ Len(RequestFrames) = 2


(***************************************************************************)
(* The headers of a response to an inbound request                         *)
(***************************************************************************)
CorrelationNames == {"Via", "From", "To", "CSeq", "Call-ID"}

\* How often header h occurs in a header list.
Occurrences(headers, h) == Cardinality({i \in 1..Len(headers) : headers[i] = h})

\* The position of the i-th header of `part` in `whole`, for lists without
\* repeated headers.
PositionIn(whole, h) == CHOOSE p \in 1..Len(whole) : whole[p] = h

\* C12: respond(status).send(body) yields a response with the given status,
\* version SIP/2.0, and as headers exactly the request's Via, From, To, CSeq
\* and Call-ID headers, unchanged and in the request's order, followed by
\* the client's User-Agent header; the stored request stays as it was.
C12_RespondHeaders ==
  rout.done =>
    LET h == rout.resp.headers
        n == Len(h) - 1
        q == rin.req.headers IN
    /\ rout.resp.status = rin.status
    /\ rout.resp.version = "SIP/2.0"
    /\ rout.req = rin.req
    /\ n >= 0
    /\ h[n + 1] = UserAgent
    /\ \A i \in 1..n : h[i].name \in CorrelationNames
    /\ \A i \in 1..n : Occurrences(q, h[i]) = Occurrences(SubSeq(h, 1, n), h[i])
    /\ \A j \in 1..Len(q) :
         q[j].name \in CorrelationNames => \E i \in 1..n : h[i] = q[j]
    /\ \A i, j \in 1..n : i < j => PositionIn(q, h[i]) < PositionIn(q, h[j])

\* A response was built for a request that carries two Via headers, all the
\* other correlation headers and a User-Agent, a Contact and a
\* Content-Length header of its own.
C12_Witness ==
  /\ rout.done
  /\ Len(rin.req.headers) = Len(RespondHeaders)
  /\ rin.req.headers[1].name # "Via"
  /\ Len(rout.resp.headers) = 7
  /\ rin.body # <<>>


(***************************************************************************)
(* The answers to inbound requests                                         *)
(***************************************************************************)
\* The requests among the frames read, and the responses among the frames
\* written, in order.
RequestsRead == SelectSeq(rlog, LAMBDA f : f.kind = "request")
ResponsesWritten == SelectSeq(wire, LAMBDA f : f.kind = "response")

Correlation(headers) == SelectSeq(headers, LAMBDA h : h.name \in CorrelationNames)

CarriesCorrelation(request) ==
  \A n \in CorrelationNames : \E i \in 1..Len(request.headers) : request.headers[i].name = n

\* The answers the consumer loop owes to a request: 100 and 180 to an
\* INVITE, 202 to a CANCEL or an OPTIONS, none to any other method.
Owed(request) ==
  IF request.method = "INVITE"
    THEN <<[status |-> 100, req |-> request], [status |-> 180, req |-> request]>>
    ELSE IF request.method \in {"CANCEL", "OPTIONS"}
      THEN <<[status |-> 202, req |-> request]>>
      ELSE <<>>

RECURSIVE OwedAll(_)
OwedAll(frames) ==
  IF frames = <<>> THEN <<>> ELSE Owed(Head(frames).msg) \o OwedAll(Tail(frames))

\* Everything read has been taken, answered and written.
Settled ==
  /\ mux = "select"
  /\ inq = <<>>
  /\ resq = <<>>
  /\ cons.pc = "recv"

\* C13: for inbound requests that carry the correlation headers, the
\* response frames on the transport are, in order, the answers owed to the
\* requests in the order they were read (INVITE then CANCEL: 100, 180,
\* 202), each with the Via, From, To, CSeq and Call-ID of its own request;
\* once everything is settled none of them is missing.
C13_AnswersInOrder ==
  (\A i \in 1..Len(RequestsRead) : CarriesCorrelation(RequestsRead[i].msg)) =>
    LET owed == OwedAll(RequestsRead)
        sent == ResponsesWritten IN
    /\ Len(sent) <= Len(owed)
    /\ \A i \in 1..Len(sent) :
         /\ sent[i].msg.status = owed[i].status
         /\ Correlation(sent[i].msg.headers) = Correlation(owed[i].req.headers)
    /\ Settled => Len(sent) = Len(owed)

\* An INVITE and then a CANCEL were read and three responses were written.
C13_Witness ==
  /\ Len(RequestsRead) = 2
  /\ RequestsRead[1].msg = PeerRequest("INVITE")
  /\ RequestsRead[2].msg = PeerRequest("CANCEL")
  /\ Len(ResponsesWritten) = 3
  /\ Settled


(***************************************************************************)
(* After the multiplexer has terminated                                    *)
(***************************************************************************)
\* C14: once run has terminated nothing more is written to the transport
\* and no further ServerTransaction is queued; the consumer takes what is
\* queued and then leaves its loop with "Client closed connection", and in
\* no other way.
C14_QueueClosesOnTermination ==
  [][/\ MuxTerminated =>
          /\ wire' = wire
          /\ taken' \o inq' = taken \o inq
          /\ (cons.pc = "recv" /\ inq = <<>> /\ cons' # cons) => cons'.pc = "closed"
     /\ cons'.pc # "panicked"]_vars

\* C15: a Connection::send that finds the multiplexer terminated by a
\* transport failure returns an error to its caller; it does not panic.
C15_SendAfterFailureReturnsError ==
  mux = "failed" => \A t \in T : result[t].kind # "panic"


(***************************************************************************)
(* Frames that reach no transaction                                        *)
(***************************************************************************)
\* The step reads a frame, and which.
ReadsFrame == Len(rlog') = Len(rlog) + 1
FrameRead == rlog'[Len(rlog')]

\* C16: a response whose key has no registry entry when it is read changes
\* neither the registry, the inbound queue, any transaction channel nor the
\* transport, and leaves run in its loop.
C16_UnmatchedResponseDiscarded ==
  [][(/\ ReadsFrame
      /\ FrameRead.kind = "response"
      /\ ~HasKey(registry, from_response(FrameRead.msg)))
       => /\ registry' = registry
          /\ inq' = inq
          /\ chan' = chan
          /\ delivered' = delivered
          /\ wire' = wire
          /\ mux' = "select"]_vars

\* A response to an INVITE, which no transaction of the model awaits, was
\* read, and a frame read after it was delivered to a transaction.
C16_Witness ==
  \E i \in 1..Len(rlog), d \in 1..Len(dlog) :
    /\ rlog[i] = TextResponse(PeerResponse(200, "INVITE", "c1"))
    /\ dlog[d].frame > i

\* C17: a text frame that does not parse ends run with an error; it reaches
\* neither the inbound queue nor a transaction channel, and no frame is
\* read after it.
C17_MalformedIsFatal ==
  [][ReadsFrame =>
       /\ \A i \in 1..Len(rlog) : rlog[i].kind # "malformed"
       /\ FrameRead.kind = "malformed" =>
            /\ mux' = "failed"
            /\ inq' = inq
            /\ chan' = chan
            /\ delivered' = delivered]_vars

\* A frame that does not parse was read after a response had been
\* delivered, and run has ended.
C17_Witness ==
  /\ Len(rlog) >= 2
  /\ rlog[Len(rlog)].kind = "malformed"
  /\ dlog # <<>>
  /\ mux = "failed"


(***************************************************************************)
(* Order and backpressure                                                  *)
(***************************************************************************)
Messages(frames) == [i \in 1..Len(frames) |-> frames[i].msg]

IsPrefix(p, q) == Len(p) <= Len(q) /\ SubSeq(q, 1, Len(p)) = p

\* The inbound requests on their way to the consumer, oldest first: taken,
\* queued, and the one run holds while it waits for room in the queue.
Inbound ==
  taken \o inq \o (IF mux = "sendReq" THEN <<hold.msg>> ELSE <<>>)

\* C18: at most one ServerTransaction is queued; while run waits for room
\* in the full queue it reads no frame, writes none and delivers nothing,
\* and it goes on only when the queue has been emptied; the requests reach
\* the consumer in the order their frames were read, each exactly once.
C18_InboundBackpressure ==
  [][/\ Len(inq') <= 1
     /\ IsPrefix(Inbound', Messages(RequestsRead'))
     /\ mux' # "panicked" => Inbound' = Messages(RequestsRead')
     /\ mux = "sendReq" =>
          /\ rlog' = rlog
          /\ wire' = wire
          /\ delivered' = delivered
          /\ mux' = "select" => inq = <<>>]_vars

\* The consumer has taken one request, a second is queued and run waits
\* with a third; the three are different.
C18_Witness ==
  /\ mux = "sendReq"
  /\ Len(taken) = 1
  /\ Len(inq) = 1
  /\ Cardinality({taken[1], inq[1], hold.msg}) = 3

\* C19: every delivery into a transaction's channel is of a response frame
\* whose key is the key of that transaction; deliveries follow the order in
\* which the frames were read, no frame is delivered twice, and a channel
\* yields what was delivered to it in that order.
C19_ResponsesInArrivalOrder ==
  /\ \A d \in 1..Len(dlog) :
       /\ dlog[d].frame \in 1..Len(rlog)
       /\ rlog[dlog[d].frame].kind = "response"
       /\ from_response(rlog[dlog[d].frame].msg) = TxKey(dlog[d].tx)
  /\ \A d, e \in 1..Len(dlog) : d < e => dlog[d].frame < dlog[e].frame
  /\ \A t \in T :
       LET mine == SelectSeq(dlog, LAMBDA d : d.tx = t) IN
       /\ delivered[t] = [i \in 1..Len(mine) |-> rlog[mine[i].frame].msg]
       /\ \E k \in 0..Len(delivered[t]) :
            chan[t] = SubSeq(delivered[t], k + 1, Len(delivered[t]))

\* One transaction was given a 180 and then a 200 read after it, while the
\* other transaction, of another key, was given a response too.
C19_Witness ==
  \E t, u \in T :
    /\ TxKey(t) # TxKey(u)
    /\ Len(delivered[t]) = 2
    /\ delivered[t][1].status = 180
    /\ delivered[t][2].status = 200
    /\ delivered[u] # <<>>

\* The message run has taken from a channel and is writing, if any.
Writing(kind) ==
  IF mux = "write" /\ hold.msg.kind = kind THEN <<hold.msg>> ELSE <<>>

\* C20: while run is alive, the requests written to the transport, followed
\* by the one run is writing and by those still in the outbound channel,
\* are the requests that entered that channel, in that order, each once;
\* the same for the responses and the outgoing-response channel; run
\* writes one message at a time; after run has ended what was written is a
\* prefix of what was submitted.
C20_WritesSerialized ==
  LET entry(f) == [tx |-> f.tx, req |-> f.msg]
      wreq == SelectSeq(wire, LAMBDA f : f.kind = "request")
      reqs == [i \in 1..Len(wreq) |-> entry(wreq[i])]
      preq == [i \in 1..Len(Writing("request")) |-> entry(Writing("request")[i])]
      resps == Messages(ResponsesWritten) IN
  /\ \A i \in 1..Len(wire) : wire[i].kind \in {"request", "response", "pong"}
  /\ IsPrefix(reqs, sreq)
  /\ IsPrefix(resps, sresp)
  /\ ~MuxTerminated => /\ reqs \o preq \o outq = sreq
                       /\ resps \o Messages(Writing("response")) \o resq = sresp

\* Two requests of two callers and the two responses to an INVITE are on
\* the transport.
C20_Witness ==
  /\ Len(SelectSeq(wire, LAMBDA f : f.kind = "request")) = 2
  /\ Len(ResponsesWritten) = 2
  /\ ResponsesWritten[1].msg.status = 100
  /\ ~MuxTerminated


(***************************************************************************)
(* Transactions with equal keys, drops and the registry                    *)
(***************************************************************************)
\* Transaction o was created before transaction n, with an equal key.
Collides(o, n) ==
  /\ o < n
  /\ txst[o] # "unused"
  /\ txst[n] # "unused"
  /\ TxKey(o) = TxKey(n)

\* C21: the registry has at most one entry per key; a send whose key is
\* already registered leaves the entry of the newer transaction; while the
\* newer transaction is alive every response with that key that run reads
\* goes to it; and an older transaction that waits in receive() with
\* nothing left to drain fails (if it is not dropped first).
C21_CollisionOverwrites ==
  [][/\ \A e1, e2 \in registry' : e1.key = e2.key => e1 = e2
     /\ \A o, n \in T :
          (/\ o < n
           /\ txst[o] # "unused"
           /\ txst[n] = "unused"
           /\ txst'[n] = "sending"
           /\ from_request(txreq'[n]) = TxKey(o))
            => [key |-> TxKey(o), tx |-> n] \in registry'
     /\ \A o, n \in T :
          (/\ Collides(o, n)
           /\ Alive(n)
           /\ ReadsFrame
           /\ FrameRead.kind = "response"
           /\ from_response(FrameRead.msg) = TxKey(n))
            => \/ delivered'[n] = Append(delivered[n], FrameRead.msg)
               \/ mux' = "sendResp" /\ hold' = [tx |-> n, msg |-> FrameRead.msg]
     /\ \A o, n \in T :
          (/\ Collides(o, n)
           /\ txst[o] = "receiving"
           /\ chan[o] = <<>>
           /\ result'[o] # result[o])
            => result'[o].kind \in {"closed", "dropped"}]_vars

\* C22: run is never blocked pushing a request into the full inbound queue
\* while the consumer is blocked pushing a response into the full
\* outgoing-response channel.
C22_NoMuxConsumerDeadlock ==
  ~(/\ mux = "sendReq"
    /\ Len(inq) >= InCap
    /\ cons.pc = "respond"
    /\ Len(resq) >= ResCap)

\* C23: when an older transaction is gone while a newer transaction of the
\* same key is alive, the registry still holds the newer one's entry.
C23_DropRemovesOwnEntryOnly ==
  \A a, b \in T :
    (Collides(a, b) /\ txst[a] = "gone" /\ Alive(b))
      => [key |-> TxKey(b), tx |-> b] \in registry

\* C24: run never waits for room in the channel of a transaction that is
\* held without being received, and never while the caller dropping that
\* transaction waits for the registry.
C24_HeldTransactionNeverStalls ==
  \A t \in T :
    (mux = "sendResp" /\ hold.tx = t) => txst[t] \notin {"sending", "held", "dropping"}

\* C25: no two requests built on one Dialog have the same transaction key.
C25_DialogKeysDiffer ==
  \A i, j \in 1..Len(built) :
    i # j => from_request(built[i].req) # from_request(built[j].req)

\* A transaction exists and its drop has not finished.
NotYetDropped(t) == txst[t] \in {"sending", "held", "receiving", "dropping"}

\* C26: while run is alive every registry entry has the key of a
\* transaction whose drop has not finished, and with every transaction
\* dropped the registry is empty.
C26_RegistryNeverLeaks ==
  ~MuxTerminated =>
    /\ \A e \in registry : \E t \in T : NotYetDropped(t) /\ TxKey(t) = e.key
    /\ (\A t \in T : txst[t] = "gone") => registry = {}

\* One transaction got its final response, the other failed or was
\* dropped, both are gone and run is alive.
C26_Witness ==
  /\ ~MuxTerminated
  /\ \A t \in T : txst[t] = "gone"
  /\ \E t, u \in T :
       /\ result[t].kind = "ok"
       /\ result[u].kind = "dropped"
       /\ TxKey(t) # TxKey(u)

=============================================================================
